---------------------------- MODULE Spec2Model ----------------------------
(***************************************************************************)
(* The proctoring pipeline of the AI interview platform.                   *)
(*                                                                         *)
(*   src/components/Agent.tsx   the Agent component: the evaluator         *)
(*                              handleFaceResults and the call lifecycle   *)
(*   src/unnamed/part_000       the useAntiCheat hook                      *)
(*                                                                         *)
(* Coordinates are normalized image coordinates in hundredths (0.12 is 12, *)
(* 1 is 100) with exact arithmetic; times are milliseconds of              *)
(* performance.now().                                                      *)
(*                                                                         *)
(*   SpecEval        handleFaceResults under every landmark result of      *)
(*                   AllResults, the feeder running                        *)
(*   Spec            the lifecycle of the Agent component, or the          *)
(*                   useAntiCheat hook, whichever is mounted               *)
(*   SpecLive        the Agent's lifecycle under the fairness of the event *)
(*                   loop                                                  *)
(*   SpecReentry     the Agent's lifecycle with MaxClicks clicks on Call   *)
(*   SpecCall        the Agent's voice session, transcript and finalize()  *)
(*   SpecTranscript  onMessage under every message event of AllMessages    *)
(*   SpecCycles      the Agent's call cycles, transcript and finalize()    *)
(*                   with the camera refused                               *)
(***************************************************************************)
EXTENDS Integers, Sequences, FiniteSets, TLC

VARIABLES
    component,      \* which variant is mounted: "Agent" or "useAntiCheat"
    now,            \* performance.now(), the wall clock
    \* ---- Agent.tsx: the evaluator
    warnings,       \* Agent.tsx:39   useState<string[]>([])
    lastCheckRef,   \* Agent.tsx:48   useRef<number>(0)
    admitted,       \* history: the timestamps of the calls that passed the rate limit
    lastAdmitted,   \* history: the landmark result of the latest such call
    lastOutcome,    \* history: how the latest handleFaceResults call ended
    \* ---- Agent.tsx: the call lifecycle
    callStatus,     \* Agent.tsx:35
    localStreamRef, \* Agent.tsx:43   0 is null, i the stream of handleCall invocation i
    faceMeshRef,    \* Agent.tsx:46
    cameraRef,      \* Agent.tsx:47
    pc,             \* where each handleCall invocation stands
    stream,         \* the MediaStream each invocation acquired
    faceMesh,       \* the FaceMesh each invocation constructed
    camera,         \* the Camera (frame feeder) each invocation constructed
    inflight,       \* the feeders with an fm.send awaiting its results
    libsLoaded,     \* window.FaceMesh && window.Camera
    vapi,           \* the voice session: "idle", "starting", "active", "stopping"
    effectPending,  \* the effect of lines 149-186 is due for a commit of FINISHED
    \* ---- part_000: useAntiCheat
    alerts,         \* part_000:18
    faceModelRef,   \* part_000:19   FALSE is null
    objModelRef,    \* part_000:20
    videoEl,        \* videoRef.current is an element
    hookMounted,    \* the effect of lines 40-85 has not been cleaned up
    loadPc,         \* where the model loading of lines 23-37 stands
    framePc,        \* where the frame loop stands
    captured,       \* the locals video, faceModel, objModel of analyzeFrame
    newAlerts,      \* the local newAlerts of analyzeFrame
    inference,      \* history: the latest estimateFaces / detect call
    \* ---- Agent.tsx: the voice session, the transcript and the finalize runs
    type,           \* Agent.tsx:29   the prop: "generate" or "interview"
    messages,       \* Agent.tsx:36   useState<SavedMessage[]>([])
    delivered,      \* history: the message events the session has emitted
    session,        \* history: the number of call-start events so far
    finalizeRuns,   \* history: one record per run of finalize(), lines 168-185
    carried         \* history: the invocations whose stream, model or feeder
                    \* was in use when a later call cycle began

evalVars == <<warnings, lastCheckRef, admitted, lastAdmitted, lastOutcome>>
refVars == <<localStreamRef, faceMeshRef, cameraRef>>
resVars == <<stream, faceMesh, camera>>
agentVars == <<callStatus, refVars, pc, resVars, inflight, libsLoaded, vapi,
               effectPending>>
hookVars == <<alerts, faceModelRef, objModelRef, videoEl, hookMounted, loadPc,
              framePc, captured, newAlerts, inference>>
transcriptVars == <<messages, delivered>>
sessionVars == <<type, transcriptVars, session, finalizeRuns, carried>>
vars == <<component, now, evalVars, agentVars, hookVars, sessionVars>>

----------------------------------------------------------------------------
(* Bounds of the model *)

TickMs == 500          \* the clock advances in steps of TickMs
MaxTicks == 6          \* and at most MaxTicks times
MaxCalls == 2          \* the number of handleCall invocations
MaxLifeTicks == 1      \* the number of rate-limit intervals a lifecycle run spans
MaxCount == 2          \* the largest face or person count a detector reports
MaxClicks == 3         \* the handleCall invocations of a run with re-entry
MaxMessages == 3       \* the number of message events a session emits

(* Program constants *)

RateLimitMs == 1000    \* Agent.tsx:107
Center == 50           \* Agent.tsx:123   0.5
HeadTol == 12          \* Agent.tsx:123   0.12
GazeTol == 4           \* Agent.tsx:129   0.04
MinFaceHeight == 18    \* Agent.tsx:140   0.18
InitMinY == 100        \* Agent.tsx:135   let minY = 1
InitMaxY == 0          \* Agent.tsx:135   maxY = 0

LeftEyeIdx == 33       \* Agent.tsx:121
RightEyeIdx == 263     \* Agent.tsx:121
LeftIrisIdx == 468     \* Agent.tsx:127
RightIrisIdx == 473    \* Agent.tsx:127

NoFace == "No face detected"
MultipleFaces == "Multiple faces detected"
HeadTurned == "Head turned away"
EyesOff == "Eyes looking off-screen"
Slouching == "Too far / slouching"

----------------------------------------------------------------------------
(* Landmark results.  A face is a function from the landmark indices it    *)
(* holds to points; an index outside its DOMAIN reads as undefined.  A     *)
(* result is the object FaceMesh hands to onResults: hasList is FALSE when *)
(* multiFaceLandmarks is undefined.                                        *)

Abs(n) == IF n < 0 THEN -n ELSE n

SetMin(S) == CHOOSE m \in S : \A n \in S : m <= n
SetMax(S) == CHOOSE m \in S : \A n \in S : m >= n

Pt(px, py) == [x |-> px, y |-> py]

ForeheadIdx == 10      \* two further landmarks of the mesh, the top and
ChinIdx == 152         \* the bottom of the face oval

EyeY == 48

\* a face with all six landmarks: eye corners at lx, rx, irises shifted by
\* dl, dr from their corners, the oval from top to bottom
MkFace(lx, rx, dl, dr, top, bottom) ==
    (LeftEyeIdx :> Pt(lx, EyeY)) @@ (RightEyeIdx :> Pt(rx, EyeY)) @@
    (LeftIrisIdx :> Pt(lx + dl, EyeY)) @@ (RightIrisIdx :> Pt(rx + dr, EyeY)) @@
    (ForeheadIdx :> Pt(Center, top)) @@ (ChinIdx :> Pt(Center, bottom))

Without(lm, gone) == [i \in (DOMAIN lm) \ gone |-> lm[i]]

EyePairs == {<<40, 60>>, <<52, 72>>, <<53, 73>>, <<27, 47>>, <<28, 48>>}
IrisShifts == {<<0, 0>>, <<4, 4>>, <<5, 0>>, <<0, -5>>}
Ovals == {<<40, 58>>, <<45, 55>>, <<40, 57>>}

WellFormedFaces ==
    {MkFace(e[1], e[2], s[1], s[2], o[1], o[2]) :
        e \in EyePairs, s \in IrisShifts, o \in Ovals}

BaseFaces ==
    { MkFace(40, 60, 0, 0, 40, 58),      \* compliant
      MkFace(53, 73, 5, 0, 45, 55),      \* every rule fires
      MkFace(53, 73, 0, 0, 40, 58),      \* head turned only
      MkFace(40, 60, 5, 0, 45, 55),      \* left iris off, too far
      MkFace(40, 60, 0, -5, 40, 58) }    \* right iris off

MissingSets ==
    { {LeftIrisIdx}, {RightIrisIdx}, {LeftIrisIdx, RightIrisIdx},
      {LeftEyeIdx}, {RightEyeIdx} }

MalformedFaces == {Without(f, g) : f \in BaseFaces, g \in MissingSets}

AllFaces == WellFormedFaces \cup MalformedFaces

Result(list) == [hasList |-> TRUE, faces |-> list]
NoListResult == [hasList |-> FALSE, faces |-> <<>>]

AllResults ==
    {NoListResult, Result(<<>>)}
    \cup {Result(<<f>>) : f \in AllFaces}
    \cup {Result(<<MkFace(40, 60, 0, 0, 40, 58), f>>) : f \in BaseFaces}
    \cup {Result(<<f, f, f>>) : f \in {MkFace(53, 73, 5, 0, 45, 55)}}

----------------------------------------------------------------------------
(* handleFaceResults, Agent.tsx:105-146 *)

\* a slip in the interval: 100 ms for 1000 ms
RateLimitedShort(t, last) == t - last < RateLimitMs \div 10

\* line 107: if (now - lastCheckRef.current < 1000) return;
RateLimited(t, last) == t - last < RateLimitMs

\* line 111: results.multiFaceLandmarks || []
FacesOf(results) == IF results.hasList THEN results.faces ELSE <<>>

Has(lm, i) == i \in DOMAIN lm

\* line 122: twice eyeMidX, (leftEye.x + rightEye.x) / 2 without the division
EyeMidX2(lm) == lm[LeftEyeIdx].x + lm[RightEyeIdx].x

\* line 123: Math.abs(eyeMidX - 0.5) > 0.12, both sides doubled
HeadTurnFires(lm) == Abs(EyeMidX2(lm) - 2 * Center) > 2 * HeadTol

\* lines 129, 130: the two operands of ||
LeftGazeOff(lm) == Abs(lm[LeftIrisIdx].x - lm[LeftEyeIdx].x) > GazeTol
RightGazeOff(lm) == Abs(lm[RightIrisIdx].x - lm[RightEyeIdx].x) > GazeTol

\* lines 128-131
GazeFires(lm) == LeftGazeOff(lm) \/ RightGazeOff(lm)

\* lines 135-139: the fold of forEach over the points the array holds
MinY(lm) == SetMin({InitMinY} \cup {lm[i].y : i \in DOMAIN lm})
MaxY(lm) == SetMax({InitMaxY} \cup {lm[i].y : i \in DOMAIN lm})

\* line 140
SlouchFires(lm) == MaxY(lm) - MinY(lm) < MinFaceHeight

\* A property read of undefined raises a TypeError: leftEye.x, rightEye.x at
\* line 122; leftIris.x at line 129; rightIris.x at line 130, which || only
\* evaluates when its left operand is false.
GeometryThrows(lm) ==
    \/ ~Has(lm, LeftEyeIdx)
    \/ ~Has(lm, RightEyeIdx)
    \/ ~Has(lm, LeftIrisIdx)
    \/ (~LeftGazeOff(lm) /\ ~Has(lm, RightIrisIdx))

\* the gaze rule evaluated before the head-turn rule
GeometryWarningsGazeFirst(lm) ==
    (IF GazeFires(lm) THEN <<EyesOff>> ELSE <<>>)
    \o (IF HeadTurnFires(lm) THEN <<HeadTurned>> ELSE <<>>)
    \o (IF SlouchFires(lm) THEN <<Slouching>> ELSE <<>>)

\* lines 119-142: the pushes of the single-face branch, in order
GeometryWarnings(lm) ==
    (IF HeadTurnFires(lm) THEN <<HeadTurned>> ELSE <<>>)
    \o (IF GazeFires(lm) THEN <<EyesOff>> ELSE <<>>)
    \o (IF SlouchFires(lm) THEN <<Slouching>> ELSE <<>>)

\* lines 110-143 run without a catch: an exception leaves handleFaceResults
Throws(results) ==
    /\ Len(FacesOf(results)) = 1
    /\ GeometryThrows(FacesOf(results)[1])

\* the else-if of line 116 left out: the first face of many is examined
NewWarningsFirstFace(results) ==
    LET faces == FacesOf(results) IN
    IF Len(faces) = 0 THEN <<NoFace>>
    ELSE GeometryWarnings(faces[1])

\* lines 110-143: newWarnings when nothing is thrown
NewWarnings(results) ==
    LET faces == FacesOf(results) IN
    IF Len(faces) = 0 THEN <<NoFace>>
    ELSE IF Len(faces) > 1 THEN <<MultipleFaces>>
    ELSE GeometryWarnings(faces[1])

\* line 108 and the history of the admitted calls
Admit(results) ==
    /\ lastCheckRef' = now
    /\ admitted' = Append(admitted, now)
    /\ lastAdmitted' = results

\* the timestamp written before the interval is tested
SkipStamping ==
    /\ lastOutcome' = "skipped"
    /\ lastCheckRef' = now
    /\ UNCHANGED <<warnings, admitted, lastAdmitted>>

\* line 107: the early return
Skip ==
    /\ lastOutcome' = "skipped"
    /\ UNCHANGED <<warnings, lastCheckRef, admitted, lastAdmitted>>

\* line 145: setWarnings(newWarnings)
Publish(results) ==
    /\ warnings' = NewWarnings(results)
    /\ lastOutcome' = "published"

\* the TypeError propagates to the caller before line 145 is reached
Raise ==
    /\ warnings' = warnings
    /\ lastOutcome' = "threw"

handleFaceResults(results) ==
    IF RateLimited(now, lastCheckRef)
    THEN Skip
    ELSE /\ Admit(results)
         /\ IF Throws(results) THEN Raise ELSE Publish(results)

----------------------------------------------------------------------------
(* The evaluator alone: the Agent's feeder is running and FaceMesh hands   *)
(* any result to handleFaceResults at any time.                            *)

\* the handleCall invocations of a run: the clicks on the Call button
Calls == DOMAIN pc

\* time passes: performance.now() grows by step, max times at most
Tick(step, max) ==
    /\ component = "Agent"
    /\ now + step <= step * max
    /\ now' = now + step
    /\ UNCHANGED <<component, sessionVars, evalVars, agentVars, hookVars>>

OnResults ==
    /\ \E r \in AllResults : handleFaceResults(r)
    /\ UNCHANGED <<component, sessionVars, now, agentVars, hookVars>>

EvaluatorInit ==
    /\ now = 0
    /\ warnings = <<>>
    /\ lastCheckRef = 0
    /\ admitted = <<>>
    /\ lastAdmitted = NoListResult
    /\ lastOutcome = "none"

HookInit ==
    /\ alerts = <<>>
    /\ faceModelRef = FALSE
    /\ objModelRef = FALSE
    /\ videoEl \in BOOLEAN
    /\ hookMounted = TRUE
    /\ loadPc = "tfReady"
    /\ framePc = "raf"
    /\ captured = [video |-> FALSE, faceModel |-> FALSE, objModel |-> FALSE]
    /\ newAlerts = <<>>
    /\ inference = [fn |-> "none", video |-> FALSE, faceModel |-> FALSE,
                    objModel |-> FALSE]

\* the first handleCall invocation has set up the feeder and the call is on
EvalInit ==
    /\ component = "Agent"
    /\ EvaluatorInit
    /\ callStatus = "ACTIVE"
    /\ localStreamRef = 1 /\ faceMeshRef = 1 /\ cameraRef = 1
    /\ pc = [i \in 1..MaxCalls |-> IF i = 1 THEN "done" ELSE "idle"]
    /\ stream = [i \in 1..MaxCalls |-> IF i = 1 THEN "live" ELSE "none"]
    /\ faceMesh = [i \in 1..MaxCalls |-> IF i = 1 THEN "open" ELSE "none"]
    /\ camera = [i \in 1..MaxCalls |-> IF i = 1 THEN "running" ELSE "none"]
    /\ inflight = {}
    /\ libsLoaded = TRUE
    /\ vapi = "active"
    /\ effectPending = FALSE
    /\ HookInit
    /\ videoEl = FALSE
    /\ type = "interview"
    /\ messages = <<>>
    /\ delivered = <<>>
    /\ session = 1
    /\ finalizeRuns = <<>>
    /\ carried = {}

EvalNext == Tick(TickMs, MaxTicks) \/ OnResults

SpecEval == EvalInit /\ [][EvalNext]_vars

----------------------------------------------------------------------------
(* The Agent component, Agent.tsx.  The component stays mounted and its    *)
(* video element exists (videoRef.current is set), so lines 199 and 233    *)
(* see an element.  Each handleCall invocation i owns the stream, the      *)
(* FaceMesh and the Camera it creates; a ref holds 0 for null or the       *)
(* invocation whose object it points to.                                   *)

IsAgent == component = "Agent"

\* setCallStatus from an event of the session: an effect with the dependency
\* [callStatus] runs after the commit of a changed value; lines 149-150 act
\* only on FINISHED
SetCallStatus(s) ==
    /\ callStatus' = s
    /\ effectPending' = (effectPending \/ (s = "FINISHED" /\ callStatus # "FINISHED"))

\* no result of createFeedback (yet)
NoResult == [raises |-> FALSE, success |-> FALSE, id |-> FALSE]

\* lines 168-177: finalize() up to its await; a "generate" call is routed
\* home at once, any other call hands the transcript to createFeedback
Finalize ==
    finalizeRuns' = Append(finalizeRuns,
        IF type = "generate"
        THEN [session |-> session, createFeedback |-> FALSE, transcript |-> <<>>,
              pc |-> "routed", result |-> NoResult, route |-> "/"]
        ELSE [session |-> session, createFeedback |-> TRUE, transcript |-> messages,
              pc |-> "createFeedback", result |-> NoResult, route |-> "none"])

\* lines 152-165: the teardown through the three refs
Teardown ==
    /\ camera' = [i \in Calls |-> IF i = cameraRef THEN "stopped" ELSE camera[i]]
    /\ cameraRef' = 0
    /\ faceMesh' = [i \in Calls |-> IF i = faceMeshRef THEN "closed" ELSE faceMesh[i]]
    /\ faceMeshRef' = 0
    /\ stream' = [i \in Calls |-> IF i = localStreamRef THEN "stopped" ELSE stream[i]]
    /\ localStreamRef' = 0

\* invocation j holds a stream, a landmark model or a feeder that is in use
InUse(j) == stream[j] = "live" \/ faceMesh[j] = "open" \/ camera[j] = "running"

\* lines 149-186 for a commit of FINISHED: the teardown, then finalize()
RunFinishedEffect == Teardown /\ Finalize

\* lines 149-186, due since a call-end event committed FINISHED: React runs
\* the effect in a task of its own
FinishedEffect ==
    /\ IsAgent
    /\ effectPending
    /\ effectPending' = FALSE
    /\ RunFinishedEffect
    /\ UNCHANGED <<component, carried, type, transcriptVars, session, now, evalVars,
                   hookVars, callStatus, pc, inflight, libsLoaded, vapi>>

\* lines 329-330: the Call button is rendered unless the status is ACTIVE;
\* line 190, then the await of getUserMedia at line 194.  The click is a
\* discrete event: React runs an effect that is still due before it renders
\* CONNECTING, in the task of the click
HandleCall(i) ==
    /\ IsAgent
    /\ pc[i] = "idle"
    /\ \A j \in Calls : j < i => pc[j] # "idle"
    /\ callStatus # "ACTIVE"
    /\ callStatus' = "CONNECTING"
    /\ effectPending' = FALSE
    /\ pc' = [pc EXCEPT ![i] = "getUserMedia"]
    /\ IF effectPending
       THEN RunFinishedEffect
       ELSE UNCHANGED <<refVars, resVars, finalizeRuns>>
    /\ carried' = IF callStatus = "FINISHED"
                  THEN carried \cup {j \in Calls : InUse(j)'}
                  ELSE carried
    /\ UNCHANGED <<component, type, transcriptVars, session, now, evalVars,
                   hookVars, inflight, libsLoaded, vapi>>

\* lines 194-201: the stream arrives, is stored and bound; await video.play()
GetUserMediaResolves(i) ==
    /\ IsAgent
    /\ pc[i] = "getUserMedia"
    /\ stream' = [stream EXCEPT ![i] = "live"]
    /\ localStreamRef' = i
    /\ pc' = [pc EXCEPT ![i] = "play"]
    /\ UNCHANGED <<component, sessionVars, now, evalVars, hookVars, callStatus,
                   faceMeshRef, cameraRef, faceMesh, camera, inflight, libsLoaded, vapi, effectPending>>

\* vapi.start placed inside the try block: skipped once a step has thrown
VapiStartSkipped(i) ==
    /\ vapi' = vapi
    /\ pc' = [pc EXCEPT ![i] = "done"]

\* lines 246-255, reached from line 240 or from the catch of line 241
\* without an await in between: vapi.start for either type; a session that
\* is already starting or on is left as it is
VapiStart(i) ==
    /\ vapi' = IF vapi = "idle" THEN "starting" ELSE vapi
    /\ pc' = [pc EXCEPT ![i] = "done"]

\* lines 194, 241-243: permission denied or no device; the catch, then line 246
GetUserMediaRejects(i) ==
    /\ IsAgent
    /\ pc[i] = "getUserMedia"
    /\ VapiStart(i)
    /\ UNCHANGED <<component, sessionVars, now, evalVars, hookVars, callStatus, refVars,
                   resVars, inflight, libsLoaded, effectPending>>

\* line 201 resolves, or rejects into the catch of line 241
PlaySettles(i) ==
    /\ IsAgent
    /\ pc[i] = "play"
    /\ \/ pc' = [pc EXCEPT ![i] = "poll"] /\ UNCHANGED vapi
       \/ VapiStart(i)
    /\ UNCHANGED <<component, sessionVars, now, evalVars, hookVars, callStatus, refVars,
                   resVars, inflight, libsLoaded, effectPending>>

\* lines 51-72: the injected scripts have run and set the two globals
ScriptsLoad ==
    /\ IsAgent
    /\ ~libsLoaded
    /\ libsLoaded' = TRUE
    /\ UNCHANGED <<component, sessionVars, now, evalVars, hookVars, callStatus, refVars,
                   pc, resVars, inflight, vapi, effectPending>>

\* the interval callback resolving without a look at the globals
PollSeesGlobalsAlways == TRUE

\* line 207: the interval callback resolves only when both globals are set
PollSeesGlobals == libsLoaded

\* lines 205-255 after the poll has resolved, in one go (no await between):
\* upTo names the constructor that throws into the catch of line 241, "none"
\* when lines 215-240 all succeed (the promise of start() is not awaited)
Setup(i) ==
    /\ IsAgent
    /\ pc[i] = "poll"
    /\ PollSeesGlobals
    /\ \E upTo \in {"FaceMesh", "Camera", "none"} :
          /\ faceMesh' = [faceMesh EXCEPT
                            ![i] = IF upTo = "FaceMesh" THEN @ ELSE "open"]
          /\ faceMeshRef' = IF upTo = "FaceMesh" THEN faceMeshRef ELSE i
          /\ camera' = [camera EXCEPT ![i] = IF upTo = "none" THEN "running" ELSE @]
          /\ cameraRef' = IF upTo = "none" THEN i ELSE cameraRef
    /\ VapiStart(i)
    /\ UNCHANGED <<component, sessionVars, now, evalVars, hookVars, callStatus,
                   localStreamRef, stream, inflight, libsLoaded, effectPending>>

\* line 76: the session reports call-start
OnCallStart ==
    /\ IsAgent
    /\ vapi = "starting"
    /\ vapi' = "active"
    /\ SetCallStatus("ACTIVE")
    /\ session' = session + 1
    /\ UNCHANGED <<component, carried, type, transcriptVars, finalizeRuns, now, evalVars,
                   hookVars, refVars, pc, resVars, inflight, libsLoaded>>

\* line 85: the session reports an error while starting; it is logged
OnError ==
    /\ IsAgent
    /\ vapi = "starting"
    /\ vapi' = "idle"
    /\ UNCHANGED <<component, sessionVars, now, evalVars, hookVars, callStatus, refVars,
                   pc, resVars, inflight, libsLoaded, effectPending>>

\* line 77: the session reports call-end, by itself or after vapi.stop()
OnCallEnd ==
    /\ IsAgent
    /\ vapi \in {"active", "stopping"}
    /\ vapi' = "idle"
    /\ SetCallStatus("FINISHED")
    /\ UNCHANGED <<component, sessionVars, now, evalVars, hookVars, refVars, pc, resVars,
                   inflight, libsLoaded>>

\* lines 259-262, behind the End button of lines 345-347.  The click is a
\* discrete event: React commits FINISHED and runs the effect of lines
\* 149-186 in the task of the click
HandleDisconnect ==
    /\ IsAgent
    /\ callStatus = "ACTIVE"
    /\ callStatus' = "FINISHED"
    /\ effectPending' = FALSE
    /\ vapi' = IF vapi = "active" THEN "stopping" ELSE vapi
    /\ RunFinishedEffect
    /\ UNCHANGED <<component, carried, type, transcriptVars, session, now, evalVars,
                   hookVars, pc, inflight, libsLoaded>>

\* lines 234-236: the running feeder hands the current frame to fm.send; the
\* next frame waits for this one
OnFrame(i) ==
    /\ IsAgent
    /\ camera[i] = "running"
    /\ faceMesh[i] = "open"
    /\ i \notin inflight
    /\ inflight' = inflight \cup {i}
    /\ UNCHANGED <<component, sessionVars, now, evalVars, hookVars, callStatus, refVars,
                   pc, resVars, libsLoaded, vapi, effectPending>>

SampleResults ==
    { Result(<<>>),
      Result(<<MkFace(53, 73, 5, 0, 45, 55)>>) }

\* line 229: FaceMesh hands the results of a send to handleFaceResults
SendCompletes(i) ==
    /\ IsAgent
    /\ i \in inflight
    /\ inflight' = inflight \ {i}
    /\ \E r \in SampleResults : handleFaceResults(r)
    /\ UNCHANGED <<component, sessionVars, now, hookVars, callStatus, refVars, pc,
                   resVars, libsLoaded, vapi, effectPending>>

\* a send on a FaceMesh that was closed meanwhile ends without results
SendDropped(i) ==
    /\ IsAgent
    /\ i \in inflight
    /\ faceMesh[i] = "closed"
    /\ inflight' = inflight \ {i}
    /\ UNCHANGED <<component, sessionVars, now, evalVars, hookVars, callStatus, refVars,
                   pc, resVars, libsLoaded, vapi, effectPending>>

\* the props of lines 24-31: the call is of type "generate" or an interview
Types == {"generate", "interview"}

\* lines 35-48 with clicks clicks on the Call button to come
AgentInitFor(clicks) ==
    /\ EvaluatorInit
    /\ callStatus = "INACTIVE"
    /\ localStreamRef = 0 /\ faceMeshRef = 0 /\ cameraRef = 0
    /\ pc = [i \in 1..clicks |-> "idle"]
    /\ stream = [i \in 1..clicks |-> "none"]
    /\ faceMesh = [i \in 1..clicks |-> "none"]
    /\ camera = [i \in 1..clicks |-> "none"]
    /\ inflight = {}
    /\ libsLoaded = FALSE
    /\ vapi = "idle"
    /\ effectPending = FALSE
    /\ messages = <<>>
    /\ delivered = <<>>
    /\ session = 0
    /\ finalizeRuns = <<>>
    /\ carried = {}

AgentInit == AgentInitFor(MaxCalls)

----------------------------------------------------------------------------
(* The voice session's messages and the end of finalize(), Agent.tsx       *)

\* a message event of the session; role and transcript are "none" on the
\* events that carry none
Msg(t, tt, r, text) ==
    [type |-> t, transcriptType |-> tt, role |-> r, transcript |-> text]

AllMessages ==
    {Msg("transcript", tt, r, text) :
        tt \in {"final", "partial"}, r \in {"user", "assistant"},
        text \in {"hello", "hi"}}
    \cup {Msg("speech-update", "none", "none", "none")}

SampleMessages == {Msg("transcript", "final", "user", "hi")}

CycleMessages ==
    { Msg("transcript", "final", "user", "hi"),
      Msg("transcript", "final", "assistant", "hello"),
      Msg("transcript", "partial", "user", "hi") }

\* the transcriptType left out of the test: partial transcripts pass
IsTranscript(m) == m.type = "transcript"

\* line 79
IsFinalTranscript(m) == m.type = "transcript" /\ m.transcriptType = "final"

\* line 80: { role: m.role, content: m.transcript }
SavedMessage(m) == [role |-> m.role, content |-> m.transcript]

\* the updater keeping the new entry only
UpdaterReplacing(prev, m) == <<SavedMessage(m)>>

\* line 80: (prev) => [...prev, { role, content }]
Updater(prev, m) == Append(prev, SavedMessage(m))

\* lines 78-82: the session emits a message event; the updater of line 80
\* is applied to the latest value of messages
OnMessage(events) ==
    /\ IsAgent
    /\ vapi \in {"active", "stopping"}
    /\ Len(delivered) < MaxMessages
    /\ \E m \in events :
          /\ delivered' = Append(delivered, m)
          /\ messages' = IF IsFinalTranscript(m)
                         THEN Updater(messages, m)
                         ELSE messages
    /\ UNCHANGED <<component, carried, type, session, finalizeRuns, now, evalVars,
                   agentVars, hookVars>>

\* what the awaited createFeedback of line 172 can come back with: a result
\* object, or a rejection
CreateFeedbackOutcomes ==
    {[raises |-> FALSE, success |-> ok, id |-> id] : ok, id \in BOOLEAN}
    \cup {[raises |-> TRUE, success |-> FALSE, id |-> FALSE]}

\* lines 178-182: the route for a result object
RouteFor(o) == IF o.success /\ o.id THEN "feedback" ELSE "/"

\* lines 172-182: the createFeedback of finalize run k settles; a rejection
\* leaves finalize() at line 172, whose promise line 185 drops
CreateFeedbackSettles(k) ==
    /\ IsAgent
    /\ k \in DOMAIN finalizeRuns
    /\ finalizeRuns[k].pc = "createFeedback"
    /\ \E o \in CreateFeedbackOutcomes :
          finalizeRuns' = [finalizeRuns EXCEPT
              ![k].pc = IF o.raises THEN "raised" ELSE "routed",
              ![k].result = o,
              ![k].route = IF o.raises THEN "none" ELSE RouteFor(o)]
    /\ UNCHANGED <<component, carried, type, transcriptVars, session, now, evalVars,
                   agentVars, hookVars>>

AgentNext ==
    \/ Tick(RateLimitMs, MaxLifeTicks)
    \/ ScriptsLoad
    \/ OnCallStart
    \/ OnError
    \/ OnCallEnd
    \/ HandleDisconnect
    \/ FinishedEffect
    \/ \E i \in Calls :
          \/ HandleCall(i)
          \/ GetUserMediaResolves(i)
          \/ GetUserMediaRejects(i)
          \/ PlaySettles(i)
          \/ Setup(i)
          \/ OnFrame(i)
          \/ SendCompletes(i)
          \/ SendDropped(i)

----------------------------------------------------------------------------
(* The useAntiCheat hook, part_000 *)

IsHook == component = "useAntiCheat"

\* lines 54, 61: the template strings, kept as prefix and number
FaceCountAlert(n) == <<"Face count: ", n>>
PeopleAlert(n) == <<"People detected: ", n>>

\* the guard without its third operand
ModelsReadyNoObj(c) == c.video /\ c.faceModel

\* line 49: if (video && faceModel && objModel)
ModelsReady(c) == c.video /\ c.faceModel /\ c.objModel

\* lines 79-80: setAlerts (dropped by React once the component is gone) and
\* the next requestAnimationFrame
PublishAndReschedule(a) ==
    /\ alerts' = IF hookMounted THEN a ELSE alerts
    /\ newAlerts' = <<>>
    /\ framePc' = "raf"

\* line 24: tf.ready() settles
TfReadySettles ==
    /\ IsHook
    /\ loadPc = "tfReady"
    /\ \E ok \in BOOLEAN : loadPc' = IF ok THEN "createDetector" ELSE "done"
    /\ UNCHANGED <<component, sessionVars, now, evalVars, agentVars, alerts, faceModelRef,
                   objModelRef, videoEl, hookMounted, framePc, captured,
                   newAlerts, inference>>

\* lines 27-30, 33-35: createDetector resolves, or rejects into the catch
CreateDetectorSettles ==
    /\ IsHook
    /\ loadPc = "createDetector"
    /\ \E ok \in BOOLEAN :
          /\ faceModelRef' = ok
          /\ loadPc' = IF ok THEN "cocoLoad" ELSE "done"
    /\ UNCHANGED <<component, sessionVars, now, evalVars, agentVars, alerts, objModelRef,
                   videoEl, hookMounted, framePc, captured, newAlerts, inference>>

\* lines 32-35: cocoSsd.load resolves, or rejects into the catch
CocoLoadSettles ==
    /\ IsHook
    /\ loadPc = "cocoLoad"
    /\ \E ok \in BOOLEAN : objModelRef' = ok
    /\ loadPc' = "done"
    /\ UNCHANGED <<component, sessionVars, now, evalVars, agentVars, alerts, faceModelRef,
                   videoEl, hookMounted, framePc, captured, newAlerts, inference>>

\* the caller's video element is attached to or detached from videoRef
VideoRefChanges ==
    /\ IsHook
    /\ videoEl' = ~videoEl
    /\ UNCHANGED <<component, sessionVars, now, evalVars, agentVars, alerts, faceModelRef,
                   objModelRef, hookMounted, loadPc, framePc, captured,
                   newAlerts, inference>>

\* lines 43-52, 79-80: the animation frame fires; up to the await of
\* estimateFaces, or through to the end when the guard fails
AnalyzeFrame ==
    /\ IsHook
    /\ framePc = "raf"
    /\ LET c == [video |-> videoEl, faceModel |-> faceModelRef,
                 objModel |-> objModelRef]
       IN  IF ModelsReady(c)
           THEN /\ captured' = c
                /\ newAlerts' = <<>>
                /\ framePc' = "estimateFaces"
                /\ inference' = [fn |-> "estimateFaces", video |-> c.video,
                                 faceModel |-> c.faceModel, objModel |-> c.objModel]
                /\ UNCHANGED alerts
           ELSE /\ PublishAndReschedule(<<>>)
                /\ UNCHANGED <<captured, inference>>
    /\ UNCHANGED <<component, sessionVars, now, evalVars, agentVars, faceModelRef, objModelRef,
                   videoEl, hookMounted, loadPc>>

\* lines 52-58: estimateFaces resolves with n faces and detect is called, or
\* it rejects into the catch of line 74
EstimateFacesSettles ==
    /\ IsHook
    /\ framePc = "estimateFaces"
    /\ \/ \E n \in 0..MaxCount :
            /\ newAlerts' = IF n # 1 THEN Append(newAlerts, FaceCountAlert(n))
                            ELSE newAlerts
            /\ framePc' = "detect"
            /\ inference' = [fn |-> "detect", video |-> captured.video,
                             faceModel |-> captured.faceModel,
                             objModel |-> captured.objModel]
            /\ UNCHANGED alerts
       \/ /\ PublishAndReschedule(newAlerts)
          /\ UNCHANGED inference
    /\ UNCHANGED <<component, sessionVars, now, evalVars, agentVars, faceModelRef, objModelRef,
                   videoEl, hookMounted, loadPc, captured>>

\* lines 58-62, 79-80: detect resolves with n persons, or rejects into the
\* catch of line 74
DetectSettles ==
    /\ IsHook
    /\ framePc = "detect"
    /\ \/ \E n \in 0..MaxCount :
            PublishAndReschedule(IF n # 1 THEN Append(newAlerts, PeopleAlert(n))
                                 ELSE newAlerts)
       \/ PublishAndReschedule(newAlerts)
    /\ UNCHANGED <<component, sessionVars, now, evalVars, agentVars, faceModelRef, objModelRef,
                   videoEl, hookMounted, loadPc, captured, inference>>

\* line 84: the cleanup cancels the frame request made last; a frame that
\* is being analyzed is not a pending request
Cleanup ==
    /\ IsHook
    /\ hookMounted
    /\ hookMounted' = FALSE
    /\ framePc' = IF framePc = "raf" THEN "cancelled" ELSE framePc
    /\ UNCHANGED <<component, sessionVars, now, evalVars, agentVars, alerts, faceModelRef,
                   objModelRef, videoEl, loadPc, captured, newAlerts, inference>>

HookNext ==
    \/ TfReadySettles
    \/ CreateDetectorSettles
    \/ CocoLoadSettles
    \/ VideoRefChanges
    \/ AnalyzeFrame
    \/ EstimateFacesSettles
    \/ DetectSettles
    \/ Cleanup

----------------------------------------------------------------------------
(* The two variants, one of them mounted *)

Init ==
    /\ component \in {"Agent", "useAntiCheat"}
    /\ type = "interview"
    /\ AgentInit
    /\ HookInit
    /\ IsAgent => ~videoEl

Next == AgentNext \/ HookNext

Spec == Init /\ [][Next]_vars

----------------------------------------------------------------------------
(* The Agent with its voice session: the clicks, the session's events, the *)
(* transcript and finalize(); the camera delivers no frame.                *)

HandleCallSteps(i) ==
    \/ HandleCall(i)
    \/ GetUserMediaResolves(i)
    \/ GetUserMediaRejects(i)
    \/ PlaySettles(i)
    \/ Setup(i)

CallInit ==
    /\ component = "Agent"
    /\ type \in Types
    /\ AgentInit
    /\ HookInit
    /\ videoEl = FALSE

CallNext ==
    \/ ScriptsLoad
    \/ OnCallStart
    \/ OnError
    \/ OnCallEnd
    \/ HandleDisconnect
    \/ FinishedEffect
    \/ OnMessage(SampleMessages)
    \/ \E i \in Calls : HandleCallSteps(i)
    \/ \E k \in DOMAIN finalizeRuns : CreateFeedbackSettles(k)

SpecCall == CallInit /\ [][CallNext]_vars

(* The transcript alone: a session is on and emits any message event *)

TranscriptNext == OnMessage(AllMessages)

SpecTranscript == EvalInit /\ [][TranscriptNext]_vars

(* The Agent over its call cycles with the camera refused: every          *)
(* getUserMedia rejects, so each handleCall goes through the catch to      *)
(* vapi.start; the session emits finals of both roles and partials         *)

CyclesNext ==
    \/ OnCallStart
    \/ OnError
    \/ OnCallEnd
    \/ HandleDisconnect
    \/ FinishedEffect
    \/ OnMessage(CycleMessages)
    \/ \E i \in Calls : HandleCall(i) \/ GetUserMediaRejects(i)

SpecCycles == CallInit /\ [][CyclesNext]_vars

(* The Agent with a Call button clicked up to MaxClicks times, from the    *)
(* moment the scripts have loaded and a second has passed                  *)

ReentryInit ==
    /\ component = "Agent"
    /\ type = "interview"
    /\ now = RateLimitMs
    /\ warnings = <<>>
    /\ lastCheckRef = 0
    /\ admitted = <<>>
    /\ lastAdmitted = NoListResult
    /\ lastOutcome = "none"
    /\ callStatus = "INACTIVE"
    /\ localStreamRef = 0 /\ faceMeshRef = 0 /\ cameraRef = 0
    /\ pc = [i \in 1..MaxClicks |-> "idle"]
    /\ stream = [i \in 1..MaxClicks |-> "none"]
    /\ faceMesh = [i \in 1..MaxClicks |-> "none"]
    /\ camera = [i \in 1..MaxClicks |-> "none"]
    /\ inflight = {}
    /\ libsLoaded = TRUE
    /\ vapi = "idle"
    /\ effectPending = FALSE
    /\ messages = <<>>
    /\ delivered = <<>>
    /\ session = 0
    /\ finalizeRuns = <<>>
    /\ carried = {}
    /\ HookInit
    /\ videoEl = FALSE

ReentryNext ==
    \/ OnCallStart
    \/ OnError
    \/ OnCallEnd
    \/ HandleDisconnect
    \/ FinishedEffect
    \/ \E i \in Calls :
          \/ HandleCallSteps(i)
          \/ OnFrame(i)
          \/ SendCompletes(i)
          \/ SendDropped(i)

SpecReentry == ReentryInit /\ [][ReentryNext]_vars

(* The Agent under the scheduling of the event loop: a continuation whose  *)
(* promise has settled runs, an effect that is due runs.  Whether           *)
(* getUserMedia settles and whether the scripts load is up to the user and *)
(* the network.                                                            *)

LiveInit ==
    /\ component = "Agent"
    /\ type = "interview"
    /\ AgentInit
    /\ HookInit
    /\ videoEl = FALSE

SpecLive ==
    /\ LiveInit
    /\ [][AgentNext]_vars
    /\ WF_vars(FinishedEffect)
    /\ \A i \in 1..MaxCalls : WF_vars(PlaySettles(i)) /\ WF_vars(Setup(i))

----------------------------------------------------------------------------
(* Properties of the evaluator, checked under SpecEval *)

Labels(w) == {w[i] : i \in DOMAIN w}

GeometryOrder == <<HeadTurned, EyesOff, Slouching>>
GeometryLabels == Labels(GeometryOrder)
FaceCountLabels == {NoFace, MultipleFaces}

\* w lists some of the geometry labels, each once, in the order of GeometryOrder
InGeometryOrder(w) ==
    \E keep \in SUBSET (1..3) :
        w = SelectSeq(GeometryOrder,
                      LAMBDA l : \E i \in keep : GeometryOrder[i] = l)

HasAdmitted == admitted # <<>>
AdmittedFaces == IF lastAdmitted.hasList THEN lastAdmitted.faces ELSE <<>>
AdmittedOneFace == HasAdmitted /\ Len(AdmittedFaces) = 1
AdmittedFace == AdmittedFaces[1]

\* C1: any two calls that pass the admission filter have timestamps at
\* least 1000 ms apart
C1_AdmittedCallsAreSpaced ==
    \A i, j \in 1..Len(admitted) :
        i < j => admitted[j] - admitted[i] >= 1000

C1_Witness ==
    /\ Len(admitted) = 3
    /\ admitted[2] - admitted[1] = 1000
    /\ lastOutcome = "skipped"

\* C2: a call made less than 1000 ms after the last admitted evaluation
\* leaves warnings and lastCheckRef as they were, whatever its input (the
\* steps that leave the clock alone are the calls of handleFaceResults)
C2_RateLimitedCallIsNoOp ==
    [][(now' = now /\ now - lastCheckRef < 1000)
         => (warnings' = warnings /\ lastCheckRef' = lastCheckRef)]_vars

C2_Witness ==
    /\ lastOutcome = "skipped"
    /\ HasAdmitted
    /\ now - lastCheckRef = TickMs
    /\ warnings = <<HeadTurned, EyesOff, Slouching>>

\* C3: an admitted evaluation of zero faces (or of no face list) leaves
\* exactly <<"No face detected">>, one of more than one face exactly
\* <<"Multiple faces detected">>
C3_FaceCountRule ==
    HasAdmitted =>
        /\ (~lastAdmitted.hasList \/ Len(lastAdmitted.faces) = 0)
              => warnings = <<NoFace>>
        /\ (lastAdmitted.hasList /\ Len(lastAdmitted.faces) > 1)
              => warnings = <<MultipleFaces>>

C3_Witness ==
    /\ Len(admitted) >= 2
    /\ lastAdmitted.hasList
    /\ Len(lastAdmitted.faces) = 3
    /\ warnings = <<MultipleFaces>>

C3_WitnessNoList ==
    /\ Len(admitted) >= 2
    /\ ~lastAdmitted.hasList
    /\ warnings = <<NoFace>>

\* C4: after an admitted evaluation of exactly one face, "Head turned away"
\* is in the AlertSet iff the midpoint x of landmarks 33 and 263 is more
\* than 0.12 away from 0.5
C4_HeadTurnRule ==
    (AdmittedOneFace /\ {33, 263} \subseteq DOMAIN AdmittedFace) =>
        (HeadTurned \in Labels(warnings)
            <=> Abs(AdmittedFace[33].x + AdmittedFace[263].x - 100) > 24)

\* C5: after an admitted evaluation of exactly one face, "Eyes looking
\* off-screen" is in the AlertSet iff for at least one eye the iris-center x
\* is more than 0.04 away from the outer-corner x
C5_GazeRule ==
    AdmittedOneFace =>
        (EyesOff \in Labels(warnings)
            <=> \E eye \in {<<468, 33>>, <<473, 263>>} :
                   /\ {eye[1], eye[2]} \subseteq DOMAIN AdmittedFace
                   /\ Abs(AdmittedFace[eye[1]].x - AdmittedFace[eye[2]].x) > 4)

\* C6: after an admitted evaluation of exactly one face, "Too far /
\* slouching" is in the AlertSet iff max y - min y over all landmarks of the
\* face is below 0.18
C6_PostureRule ==
    (AdmittedOneFace /\ DOMAIN AdmittedFace # {}) =>
        LET ys == {AdmittedFace[i].y : i \in DOMAIN AdmittedFace} IN
        (Slouching \in Labels(warnings) <=> SetMax(ys) - SetMin(ys) < 18)

\* the three rules on the evaluations that reach line 145
CompletedOneFace == AdmittedOneFace /\ ~GeometryThrows(AdmittedFace)

HeadTurnRuleWhenCompleted ==
    CompletedOneFace =>
        (HeadTurned \in Labels(warnings)
            <=> Abs(AdmittedFace[33].x + AdmittedFace[263].x - 100) > 24)

GazeRuleWhenCompleted ==
    CompletedOneFace =>
        (EyesOff \in Labels(warnings)
            <=> \E eye \in {<<468, 33>>, <<473, 263>>} :
                   /\ {eye[1], eye[2]} \subseteq DOMAIN AdmittedFace
                   /\ Abs(AdmittedFace[eye[1]].x - AdmittedFace[eye[2]].x) > 4)

PostureRuleWhenCompleted ==
    CompletedOneFace =>
        LET ys == {AdmittedFace[i].y : i \in DOMAIN AdmittedFace} IN
        (Slouching \in Labels(warnings) <=> SetMax(ys) - SetMin(ys) < 18)

\* the AlertSets the evaluator computes for one face
OneFaceAlertSets ==
    {NewWarnings(r) : r \in {q \in AllResults : Len(FacesOf(q)) = 1 /\ ~Throws(q)}}

\* C7: an AlertSet published for exactly one face lists geometry labels only,
\* each at most once, in the fixed order; all eight subsets are producible;
\* no AlertSet holds a face-count label together with a geometry label
C7_FixedOrderAndExclusive ==
    /\ (AdmittedOneFace /\ lastOutcome = "published") => InGeometryOrder(warnings)
    /\ ~(Labels(warnings) \cap FaceCountLabels # {}
           /\ Labels(warnings) \cap GeometryLabels # {})
    /\ Len(warnings) = Cardinality(Labels(warnings))
    /\ OneFaceAlertSets = {w \in OneFaceAlertSets : InGeometryOrder(w)}
    /\ Cardinality(OneFaceAlertSets) = 8

C7_Witness ==
    /\ AdmittedOneFace
    /\ lastOutcome = "published"
    /\ warnings = <<HeadTurned, EyesOff, Slouching>>

\* C8: no exception escapes the evaluator
C8_NoExceptionEscapes == lastOutcome # "threw"

\* the labels of a result when each rule is isolated: a rule that cannot be
\* computed contributes nothing
IsolatedLabels(r) ==
    LET faces == IF r.hasList THEN r.faces ELSE <<>>
        lm == faces[1]
        ys == {lm[i].y : i \in DOMAIN lm}
    IN  IF Len(faces) = 0 THEN <<NoFace>>
        ELSE IF Len(faces) > 1 THEN <<MultipleFaces>>
        ELSE (IF {33, 263} \subseteq DOMAIN lm
                   /\ Abs(lm[33].x + lm[263].x - 100) > 24
              THEN <<HeadTurned>> ELSE <<>>)
          \o (IF \E eye \in {<<468, 33>>, <<473, 263>>} :
                    /\ {eye[1], eye[2]} \subseteq DOMAIN lm
                    /\ Abs(lm[eye[1]].x - lm[eye[2]].x) > 4
              THEN <<EyesOff>> ELSE <<>>)
          \o (IF ys # {} /\ SetMax(ys) - SetMin(ys) < 18
              THEN <<Slouching>> ELSE <<>>)

\* C9: after every admitted evaluation the AlertSet is exactly the labels of
\* that evaluation's landmark result
C9_ReplaceNotMerge == HasAdmitted => warnings = IsolatedLabels(lastAdmitted)

ReplaceWhenCompleted ==
    (HasAdmitted /\ ~Throws(lastAdmitted)) => warnings = IsolatedLabels(lastAdmitted)

----------------------------------------------------------------------------
(* Properties of the lifecycle, checked under Spec *)

\* C10: a feeder exists, and a frame is inferred or evaluated, only after the
\* stream of that handleCall invocation was acquired and the FaceMesh and
\* Camera globals were seen; useAntiCheat calls estimateFaces and detect only
\* with a video element and both model handles
Ready(i) == stream[i] # "none" /\ faceMesh[i] # "none" /\ libsLoaded

C10_NoEvaluationBeforeReady ==
    /\ [](\A i \in Calls : (camera[i] # "none" \/ i \in inflight) => Ready(i))
    /\ [][\A i \in inflight' \ inflight : Ready(i)]_vars
    /\ [][evalVars' # evalVars => \E i \in inflight : Ready(i)]_vars
    /\ [](inference.fn # "none" =>
             /\ inference.video /\ inference.faceModel /\ inference.objModel
             /\ faceModelRef /\ objModelRef)

C10_Witness ==
    /\ IsAgent
    /\ lastOutcome = "published"
    /\ warnings # <<>>
    /\ \E i \in Calls : camera[i] = "running" /\ Ready(i)

C10_WitnessHook ==
    /\ IsHook
    /\ inference.fn = "detect"
    /\ alerts # <<>>

\* every feeder, stream and landmark model the component ever created is off
AllReleased ==
    \A i \in Calls :
        camera[i] # "running" /\ stream[i] # "live" /\ faceMesh[i] # "open"

\* C11: when the teardown of FINISHED has run (the step that calls finalize)
\* every feeder is stopped, every stream stopped and every landmark model
\* closed, and from then on, while the status stays FINISHED, no frame is fed
\* and no evaluation runs
C11_TeardownReleasesAll ==
    /\ [][finalizeRuns' # finalizeRuns => AllReleased']_vars
    /\ [][(callStatus = "FINISHED" /\ ~effectPending /\ callStatus' = "FINISHED")
            => (evalVars' = evalVars /\ inflight' \subseteq inflight)]_vars

\* C12: every handleCall invocation eventually invokes vapi.start, also when
\* getUserMedia never settles or the scripts never load
C12_VapiStartIsNotBlocked ==
    \A i \in 1..MaxCalls : (pc[i] = "getUserMedia") ~> (pc[i] = "done")

\* the step in which handleCall invocation i leaves its try block through
\* the catch: it ends without having constructed a feeder
SetupFailed(i) ==
    /\ pc[i] \in {"getUserMedia", "play", "poll"}
    /\ pc'[i] = "done"
    /\ camera'[i] = "none"

Started == {i \in Calls : pc[i] # "idle"}
Latest == SetMax(Started)

\* a call cycle is on whose proctoring setup failed: the latest invocation
\* ended without a feeder, and every earlier one either failed as well or
\* had its feeder stopped by the teardown of an earlier cycle
SetupFailedCycle ==
    /\ IsAgent
    /\ Started # {}
    /\ callStatus \in {"CONNECTING", "ACTIVE"}
    /\ \A i \in Started : pc[i] = "done" /\ camera[i] \in {"none", "stopped"}
    /\ camera[Latest] = "none"

\* C14: in a call cycle whose proctoring setup failed the AlertSet is empty
C14_NoAlertsWhenSetupFailed == SetupFailedCycle => warnings = <<>>

\* C16: once the frame loop is stopped (the cleanup of useAntiCheat has run;
\* the teardown has stopped a feeder of the Agent) there is no further
\* estimateFaces, detect or send for it and no further publication of alerts
C16_NoPostStopInference ==
    /\ [][~hookMounted => (inference' = inference /\ alerts' = alerts)]_vars
    /\ [][\A i \in Calls : camera[i] = "stopped" =>
              /\ i \in inflight' => i \in inflight
              /\ (i \in inflight /\ i \notin inflight') => warnings' = warnings]_vars

\* C19: no frame is fed from, and no evaluation driven by, a stream, model
\* or feeder that was obtained before the current call cycle began (checked
\* under SpecReentry)
C19_NoStaleHandles ==
    [][\A i \in carried :
          /\ i \in inflight' => i \in inflight
          /\ (i \in inflight /\ i \notin inflight') => evalVars' = evalVars]_vars

----------------------------------------------------------------------------
(* Properties of the voice session and of finalize, checked under SpecCall *)

\* the finalize runs that invoked createFeedback
FeedbackRuns == {k \in DOMAIN finalizeRuns : finalizeRuns[k].createFeedback}

\* C15: for a call of another type than "generate", createFeedback is
\* invoked once for each call that has ended: no two invocations belong to
\* the same voice session, and once the latest session has ended and the
\* effect of FINISHED has run there is an invocation for it
C15_FeedbackOncePerCall ==
    type # "generate" =>
        /\ \A a, b \in FeedbackRuns :
              a # b => finalizeRuns[a].session # finalizeRuns[b].session
        /\ (session > 0 /\ vapi = "idle" /\ callStatus = "FINISHED" /\ ~effectPending)
              => \E k \in FeedbackRuns : finalizeRuns[k].session = session

\* the final-transcript events among those delivered, in delivery order
FinalsDelivered ==
    SelectSeq(delivered,
              LAMBDA m : m.type = "transcript" /\ m.transcriptType = "final")

\* C18: the transcript buffer holds exactly the final-transcript messages
\* delivered so far, as {role, content} entries in delivery order
C18_TranscriptHoldsFinals ==
    /\ Len(messages) = Len(FinalsDelivered)
    /\ \A k \in 1..Len(messages) :
          messages[k] = [role |-> FinalsDelivered[k].role,
                         content |-> FinalsDelivered[k].transcript]

C18_Witness ==
    /\ Len(delivered) = 3
    /\ delivered[1] = Msg("transcript", "final", "user", "hi")
    /\ delivered[2].transcriptType # "final"
    /\ delivered[3] = Msg("transcript", "final", "assistant", "hello")
    /\ messages = << [role |-> "user", content |-> "hi"],
                     [role |-> "assistant", content |-> "hello"] >>

AllowedTransitions ==
    { <<"INACTIVE", "CONNECTING">>, <<"CONNECTING", "ACTIVE">>,
      <<"ACTIVE", "FINISHED">>, <<"FINISHED", "CONNECTING">> }

\* C17: CallStatus starts at INACTIVE and every change of it is one of
\* INACTIVE->CONNECTING, CONNECTING->ACTIVE, ACTIVE->FINISHED and
\* FINISHED->CONNECTING
C17_CallStatusTransitions ==
    /\ callStatus = "INACTIVE"
    /\ [][callStatus' # callStatus
            => <<callStatus, callStatus'>> \in AllowedTransitions]_vars

\* C20: every finalize run whose call has ended routes the user once: a run
\* of a "generate" call to the landing view; a run whose createFeedback has
\* settled to the feedback view when it reported success with an id, to the
\* landing view when it reported failure, returned no id or raised; no call
\* is finalized (routed, or handed to createFeedback) a second time
C20_RoutedOncePerCall ==
    /\ \A k \in DOMAIN finalizeRuns :
          LET run == finalizeRuns[k] IN
          /\ ~run.createFeedback => run.route = "/"
          /\ (run.createFeedback /\ run.pc # "createFeedback") =>
                run.route = IF ~run.result.raises /\ run.result.success
                                  /\ run.result.id
                            THEN "feedback" ELSE "/"
    /\ \A a, b \in DOMAIN finalizeRuns :
          a # b => finalizeRuns[a].session # finalizeRuns[b].session

----------------------------------------------------------------------------
(* Properties of the frame loop and of the coordinator's resources under   *)
(* overlapping handleCall invocations, checked under Spec                  *)

\* the landmark inferences that were submitted and have not completed: the
\* fm.send of each feeder of the Agent, the estimateFaces of the hook
OutstandingInferences ==
    Cardinality(inflight) + (IF framePc = "estimateFaces" THEN 1 ELSE 0)

\* C21: at any time at most one landmark inference is outstanding: no frame
\* is submitted while the results of an earlier submission are awaited
C21_OneInferenceOutstanding == OutstandingInferences <= 1

\* the invocations whose stream is live, whose landmark model is open and
\* whose feeder is running
LiveStreams == {i \in Calls : stream[i] = "live"}
OpenModels == {i \in Calls : faceMesh[i] = "open"}
RunningFeeders == {i \in Calls : camera[i] = "running"}

\* C22: at most one stream is live, one feeder running and one landmark
\* model open, and each of them is the one its ref points to, so that the
\* teardown of FINISHED reaches it
C22_NoOrphanedResources ==
    /\ Cardinality(LiveStreams) <= 1
    /\ Cardinality(RunningFeeders) <= 1
    /\ Cardinality(OpenModels) <= 1
    /\ \A i \in LiveStreams : localStreamRef = i
    /\ \A i \in RunningFeeders : cameraRef = i
    /\ \A i \in OpenModels : faceMeshRef = i

----------------------------------------------------------------------------
(* Properties of the transcript over the call cycles, checked under        *)
(* SpecCycles                                                              *)

IsPrefix(a, b) == Len(a) <= Len(b) /\ SubSeq(b, 1, Len(a)) = a

\* C23: no step removes or reorders entries of messages, and the
\* transcript a later finalize run hands to createFeedback has the
\* transcript of every earlier run as a prefix
C23_TranscriptAppendOnly ==
    /\ [][IsPrefix(messages, messages')]_vars
    /\ [](\A j, k \in FeedbackRuns :
            j < k => IsPrefix(finalizeRuns[j].transcript, finalizeRuns[k].transcript))

\* two call cycles ended with createFeedback, the transcript of the first
\* non-empty and that of the second longer, with entries of both roles
C23_Witness ==
    \E j, k \in FeedbackRuns :
        /\ j < k
        /\ finalizeRuns[j].session < finalizeRuns[k].session
        /\ finalizeRuns[j].transcript # <<>>
        /\ Len(finalizeRuns[j].transcript) < Len(finalizeRuns[k].transcript)
        /\ \E a, b \in DOMAIN finalizeRuns[k].transcript :
              finalizeRuns[k].transcript[a].role # finalizeRuns[k].transcript[b].role

=============================================================================
